---- MODULE Spec2Model ----
(***************************************************************************)
(* Model of src/src/compiler/jsexecute.js: the runtime of compiled         *)
(* scripts.  A thread owns a generator; execute(thread) publishes the      *)
(* thread in globalState.thread and resumes the generator up to its next   *)
(* yield.  The helpers the generated script calls (waitPromise,            *)
(* executeInCompatibilityLayer, waitThreads, isStuck, retire) are          *)
(* translated statement by statement.  A generator that is on the call     *)
(* stack is recorded in `running`; JavaScript is single threaded, so no    *)
(* other thread is stepped and no promise callback runs until it yields.   *)
(*                                                                         *)
(* Specifications:                                                         *)
(*   Spec          two compiled threads (warp 0) interleaved by the        *)
(*                 sequencer, awaiting promises through the compatibility  *)
(*                 layer                                                   *)
(*   SpecCompat    one compiled thread, in or out of warp mode, in the     *)
(*                 yield loop of executeInCompatibilityLayer with isStuck  *)
(*   SpecWait      one compiled thread in waitThreads on threads started   *)
(*                 by startHats                                            *)
(*   SpecStuck     a fresh unit serving a sequence of isStuck() calls      *)
(*   SpecAssemble  insertRuntime on bounded source texts                   *)
(*   SpecEval      scopedEval on bounded source texts, evaluable or not    *)
(*   SpecIndex     listIndex on bounded indices and lengths                *)
(*   SpecList      listReplace, listInsert, listDelete on one list         *)
(*   SpecCompare   compareEqual on bounded operands                        *)
(*   SpecAddon     two compiled threads calling addon blocks               *)
(*   SpecThreads   two compiled threads in the compatibility layer and in  *)
(*                 waitThreads, retired at any time by the sequencer       *)
(*   SpecCompatFair  SpecCompat under fair stepping                        *)
(*   SpecEmitter   the EventEmitter of src/unnamed/part_000 under on/emit  *)
(***************************************************************************)
EXTENDS Integers, Sequences, FiniteSets, TLC

\* ------------------------------------------------------------ bounds
MaxWarp == 1        \* thread.warp ranges over 0..MaxWarp
MaxLog == 2         \* promise rejections logged in one run
MaxSuspend == 2     \* the per-call suspension count saturates here
MaxCalls == 205     \* isStuck() calls in one run of SpecStuck
MaxTokens == 2      \* tokens of a source text

\* ------------------------------------------------- program constants
STATUS_RUNNING == 0
STATUS_PROMISE_WAIT == 1
STATUS_YIELD == 2
STATUS_YIELD_TICK == 3
STATUS_DONE == 4
StuckLimit == 100
StuckMillis == 500

\* ----------------------------------------------------------- universe
None == "none"
Undefined == "undefined"
\* compiled threads, each with a generator
Threads == {"t1", "t2"}
\* threads started by startHats, of which only the status and the
\* membership in runtime.threads are seen
Hats == {"h1", "h2"}
AllThreads == Threads \cup Hats
Vals == {"a", "b"}
Statuses == {STATUS_RUNNING, STATUS_PROMISE_WAIT, STATUS_YIELD,
             STATUS_YIELD_TICK, STATUS_DONE}
\* what one call of the interpreted primitive (blockFunction) hands back
ResultKinds == {"value", "promise", "thenable"}
\* what a primitive does to its thread's status: << >> when it leaves it alone,
\* <<s>> when it sets it to s
PrimitiveEffects == {<< >>, <<STATUS_YIELD>>, <<STATUS_YIELD_TICK>>, <<STATUS_DONE>>}
\* readings of sequencer.timer.timeElapsed(), in ms
ElapsedVals == {0, 500, 501}

VARIABLES
    gsThread,       \* globalState.thread
    running,        \* the thread whose generator.next() is on the call stack
    pc,             \* per compiled thread: where its generator stands
    status,         \* thread.status
    warp,           \* thread.warp
    active,         \* runtime.threads
    thr,            \* per generator: `const thread = globalState.thread` of the helper
    useFlags,       \* executeInCompatibilityLayer's useFlags argument
    returnValue,    \* the returnValue local of the helper in progress
    promise,        \* the promise the generator awaits: none/pending/fulfilled/rejected
    promiseValue,   \* the value that promise was fulfilled with
    waitFor,        \* waitThreads' threads argument
    suspensions,    \* yields of the helper call in progress (saturating)
    result,         \* what the helper that just returned gave the script
    hasResumedFromPromise,
    stuckCounter,
    timerQueried,   \* whether the last isStuck() call asked the sequencer timer
    stuckResult,    \* what the last isStuck() call returned
    stuckElapsed,   \* what timeElapsed() stood at during the last isStuck() call
    calls,          \* isStuck() calls served (SpecStuck)
    warned,         \* calls of globalState.log.warn
    source,         \* insertRuntime's argument
    unit,           \* the definitions of the assembled unit, in order
    assembled,      \* whether insertRuntime has run
    ran,            \* the primitive of the unit that ran last
    missing,        \* the identifiers that run found undefined
    facility,       \* what `new Function(..)(globalState)` does with the unit
    errorLog,       \* the sources handed to globalState.log.error, in order
    outcome,        \* how the scopedEval call ended
    index,          \* listIndex's index argument
    length,         \* listIndex's length argument
    listIndexResult, \* << >>, or <<r>> once listIndex has returned r
    listValue,      \* list.value
    monitorUpToDate, \* list._monitorUpToDate
    lastCall,       \* the last listReplace / listInsert / listDelete call
    listCalls,      \* how many of them were made
    v1,             \* compareEqual's first argument
    v2,             \* compareEqual's second argument
    compareResult,  \* << >>, or <<b>> once compareEqual has returned b
    addonBlocks,    \* the procedure codes runtime.getAddonBlock knows
    addonCall,      \* per compiled thread: its last callAddonBlock call
    listerMap,      \* EventEmitter's listerMap
    lastEmit        \* the last emit call and how it ended

ctl == <<gsThread, running, pc>>
loc == <<thr, useFlags, returnValue, promise, promiseValue, waitFor, suspensions>>
stuck == <<stuckCounter, timerQueried, stuckResult, stuckElapsed>>
eval == <<facility, errorLog, outcome>>
lidx == <<index, length, listIndexResult>>
lst == <<listValue, monitorUpToDate, lastCall, listCalls>>
cmp == <<v1, v2, compareResult>>
lib == <<lidx, lst, cmp>>
addon == <<addonBlocks, addonCall>>
evt == <<listerMap, lastEmit>>
asm == <<source, unit, assembled, ran, missing, eval, lib, addon, evt>>

vars == <<gsThread, running, pc, status, warp, active, thr, useFlags, returnValue,
          promise, promiseValue, waitFor, suspensions, result,
          hasResumedFromPromise, stuckCounter, timerQueried, stuckResult,
          stuckElapsed, calls, warned, source, unit, assembled, ran, missing,
          facility, errorLog, outcome, index, length, listIndexResult,
          listValue, monitorUpToDate, lastCall, listCalls, v1, v2,
          compareResult, addonBlocks, addonCall, listerMap, lastEmit>>

\* ------------------------------------------------------------ isStuck
\* isStuck resetting its counter only when it reports a stuck tick
isStuckResetsWhenStuck(c, elapsed) ==
    LET c1 == c + 1 IN
    IF c1 >= StuckLimit /\ elapsed > StuckMillis
      THEN [counter |-> 0, queried |-> TRUE, ret |-> TRUE]
      ELSE [counter |-> c1, queried |-> c1 >= StuckLimit, ret |-> FALSE]

\* lines 41-50: stuckCounter++, and on the 100th call the reset and the timer
\* reading; gives the new counter, whether the timer was read, and the result
isStuck(c, elapsed) ==
    LET c1 == c + 1 IN
    IF c1 = StuckLimit
      THEN [counter |-> 0, queried |-> TRUE, ret |-> elapsed > StuckMillis]
      ELSE [counter |-> c1, queried |-> FALSE, ret |-> FALSE]

\* one call of isStuck() on the unit's counter
CallIsStuck(elapsed) ==
    LET r == isStuck(stuckCounter, elapsed) IN
    /\ stuckCounter' = r.counter
    /\ timerQueried' = r.queried
    /\ stuckResult' = r.ret
    /\ stuckElapsed' = elapsed

\* --------------------------------------------------------- scheduler
\* The sequencer steps the threads of runtime.threads that are RUNNING or YIELD.
Schedulable(t) ==
    /\ t \in active
    /\ status[t] \in {STATUS_RUNNING, STATUS_YIELD}

\* runtime.isWaitingThread: a thread that has left runtime.threads holds nobody
\* up; one still there is waiting when it is parked on a promise or for the
\* next tick.
isWaitingThread(u) ==
    \/ u \notin active
    \/ status[u] \in {STATUS_PROMISE_WAIT, STATUS_YIELD_TICK}

\* ------------------------------------------------------------ helpers
\* the locals of a helper call die with its return
ClearLocals(t) ==
    /\ thr' = [thr EXCEPT ![t] = None]
    /\ useFlags' = [useFlags EXCEPT ![t] = FALSE]
    /\ returnValue' = [returnValue EXCEPT ![t] = Undefined]
    /\ promise' = [promise EXCEPT ![t] = "none"]
    /\ promiseValue' = [promiseValue EXCEPT ![t] = Undefined]
    /\ waitFor' = [waitFor EXCEPT ![t] = {}]
    /\ suspensions' = [suspensions EXCEPT ![t] = 0]

\* a `yield` inside a helper: the generator leaves the call stack
Suspend(t, at) ==
    /\ pc' = [pc EXCEPT ![t] = at]
    /\ running' = None
    /\ suspensions' = [suspensions EXCEPT ![t] = IF @ < MaxSuspend THEN @ + 1 ELSE @]

\* lines 161 and 184 without their `if (useFlags)`
ResumeFromPromiseFlagAlways(t) ==
    /\ hasResumedFromPromise' = TRUE
    /\ result' = [result EXCEPT ![t] = returnValue[t]]
    /\ pc' = [pc EXCEPT ![t] = "script"]
    /\ running' = t
    /\ ClearLocals(t)
    /\ UNCHANGED <<status, stuck>>

\* lines 159-165 and 182-188 after `yield* waitPromise(...)` came back (line
\* 134): set the flag when asked to, and return the awaited value
ResumeFromPromise(t) ==
    /\ hasResumedFromPromise' = (IF useFlags[t] THEN TRUE ELSE hasResumedFromPromise)
    /\ result' = [result EXCEPT ![t] = returnValue[t]]
    /\ pc' = [pc EXCEPT ![t] = "script"]
    /\ running' = t
    /\ ClearLocals(t)
    /\ UNCHANGED <<status, stuck>>

\* the generator goes on from a yield (or its start) with pc at `to`
ResumeAt(t, to) ==
    /\ pc' = [pc EXCEPT ![t] = to]
    /\ running' = t
    /\ UNCHANGED <<status, loc, result, hasResumedFromPromise, stuck>>

\* the generator goes on from a helper's last yield: the helper returns
\* undefined to the script
ReturnFromYield(t) ==
    /\ result' = [result EXCEPT ![t] = Undefined]
    /\ pc' = [pc EXCEPT ![t] = "script"]
    /\ running' = t
    /\ ClearLocals(t)
    /\ UNCHANGED <<status, hasResumedFromPromise, stuck>>

\* thread.generator.next(): resume the generator where it stands
GeneratorNext(t) ==
    CASE pc[t] \in {"start", "yield_script"} -> ResumeAt(t, "script")
      [] pc[t] = "wp_yield" -> ResumeFromPromise(t)
      [] pc[t] = "cl_yield" -> ResumeAt(t, "cl_exec")     \* line 180
      [] pc[t] = "wt_yield" -> ResumeAt(t, "wt_check")    \* line 72
      [] pc[t] = "ab_yield" -> ReturnFromYield(t)          \* line 215
      [] OTHER ->   \* a generator that has returned: next() does nothing
            /\ pc[t] = "done"
            /\ UNCHANGED <<pc, running, status, loc, result,
                           hasResumedFromPromise, stuck>>

\* execute publishing the thread only while no thread is published yet
executeSetsContextOnce(t) ==
    /\ gsThread' = (IF gsThread = None THEN t ELSE gsThread)
    /\ GeneratorNext(t)

\* execute without line 555
executeKeepsContext(t) ==
    /\ UNCHANGED gsThread
    /\ GeneratorNext(t)

\* lines 554-557
execute(t) ==
    /\ gsThread' = t
    /\ GeneratorNext(t)

\* the sequencer calls execute
Execute(t) ==
    /\ running = None
    /\ Schedulable(t)
    /\ execute(t)
    /\ UNCHANGED <<warp, active, calls, warned, asm>>

\* ------------------------------------- executeInCompatibilityLayer
\* lines 136-141: the script writes `yield* executeInCompatibilityLayer(..)`
CallCompat(t, flags) ==
    /\ running = t /\ pc[t] = "script"
    /\ thr' = [thr EXCEPT ![t] = gsThread]
    /\ useFlags' = [useFlags EXCEPT ![t] = flags]
    /\ result' = [result EXCEPT ![t] = Undefined]
    /\ pc' = [pc EXCEPT ![t] = "cl_exec"]
    /\ UNCHANGED <<gsThread, running, status, warp, active, returnValue, promise,
                   promiseValue, waitFor, suspensions, hasResumedFromPromise,
                   stuck, calls, warned, asm>>

\* lines 115-132: waitPromise up to its yield.  A native promise runs its
\* callbacks later, from the microtask queue; a thenable may call the
\* fulfilment callback inside then(), before line 131.
waitPromise(t, kind, v) ==
    LET th == gsThread IN
    /\ thr' = [thr EXCEPT ![t] = th]
    /\ IF kind = "thenable"
         THEN /\ returnValue' = [returnValue EXCEPT ![t] = v]
              /\ promise' = [promise EXCEPT ![t] = "fulfilled"]
              /\ promiseValue' = [promiseValue EXCEPT ![t] = v]
         ELSE /\ returnValue' = [returnValue EXCEPT ![t] = Undefined]
              /\ promise' = [promise EXCEPT ![t] = "pending"]
              /\ promiseValue' = [promiseValue EXCEPT ![t] = Undefined]
    /\ status' = [status EXCEPT ![th] = STATUS_PROMISE_WAIT]
    /\ Suspend(t, "wp_yield")

\* lines 143-148, 157, 180: executeBlock(), and the isPromise test on its
\* result (lines 159, 182)
Invoke(t, kind, v, effect) ==
    /\ running = t /\ pc[t] = "cl_exec"
    /\ IF kind = "value"
         THEN /\ returnValue' = [returnValue EXCEPT ![t] = v]
              /\ status' = IF effect = << >> THEN status
                           ELSE [status EXCEPT ![thr[t]] = effect[1]]
              /\ pc' = [pc EXCEPT ![t] = "cl_check"]
              /\ UNCHANGED <<running, thr, promise, promiseValue, suspensions>>
         ELSE /\ effect = << >>
              /\ waitPromise(t, kind, v)
    /\ UNCHANGED <<gsThread, warp, active, useFlags, waitFor, result,
                   hasResumedFromPromise, stuck, calls, warned, asm>>

\* the yield loop as a do-while: one more turn after the status has left the
\* yield states
CompatLoopRunsAgain(t, elapsed) ==
    /\ running = t /\ pc[t] = "cl_check"
    /\ LET th == thr[t] IN
       CASE status[th] = STATUS_YIELD ->
               /\ status' = [status EXCEPT ![th] = STATUS_RUNNING]
               /\ IF warp[th] = 0
                    THEN /\ Suspend(t, "cl_yield")
                         /\ UNCHANGED stuck
                    ELSE /\ CallIsStuck(elapsed)
                         /\ IF isStuck(stuckCounter, elapsed).ret
                              THEN Suspend(t, "cl_yield")
                              ELSE /\ pc' = [pc EXCEPT ![t] = "cl_exec"]
                                   /\ UNCHANGED <<running, suspensions>>
               /\ UNCHANGED <<thr, useFlags, returnValue, promise, promiseValue,
                              waitFor, result>>
         [] status[th] = STATUS_YIELD_TICK ->
               /\ Suspend(t, "cl_yield")
               /\ UNCHANGED <<thr, useFlags, returnValue, promise, promiseValue,
                              waitFor, status, result, stuck>>
         [] OTHER ->
               IF suspensions[t] = 0
                 THEN /\ Suspend(t, "cl_yield")
                      /\ UNCHANGED <<thr, useFlags, returnValue, promise,
                                     promiseValue, waitFor, status, result, stuck>>
                 ELSE /\ result' = [result EXCEPT ![t] = returnValue[t]]
                      /\ pc' = [pc EXCEPT ![t] = "script"]
                      /\ ClearLocals(t)
                      /\ UNCHANGED <<running, status, stuck>>
    /\ UNCHANGED <<gsThread, warp, active, hasResumedFromPromise, calls, warned, asm>>

\* the yield loop with line 172 reduced to `if (isStuck())`
CompatLoopStuckOnly(t, elapsed) ==
    /\ running = t /\ pc[t] = "cl_check"
    /\ LET th == thr[t] IN
       CASE status[th] = STATUS_YIELD ->
               /\ status' = [status EXCEPT ![th] = STATUS_RUNNING]
               /\ CallIsStuck(elapsed)
               /\ IF isStuck(stuckCounter, elapsed).ret
                    THEN Suspend(t, "cl_yield")
                    ELSE /\ pc' = [pc EXCEPT ![t] = "cl_exec"]
                         /\ UNCHANGED <<running, suspensions>>
               /\ UNCHANGED <<thr, useFlags, returnValue, promise, promiseValue,
                              waitFor, result>>
         [] status[th] = STATUS_YIELD_TICK ->
               /\ Suspend(t, "cl_yield")
               /\ UNCHANGED <<thr, useFlags, returnValue, promise, promiseValue,
                              waitFor, status, result, stuck>>
         [] OTHER ->
               /\ result' = [result EXCEPT ![t] = returnValue[t]]
               /\ pc' = [pc EXCEPT ![t] = "script"]
               /\ ClearLocals(t)
               /\ UNCHANGED <<running, status, stuck>>
    /\ UNCHANGED <<gsThread, warp, active, hasResumedFromPromise, calls, warned, asm>>

\* lines 167-178 and 193: the while test, the YIELD / YIELD_TICK branches
CompatLoop(t, elapsed) ==
    /\ running = t /\ pc[t] = "cl_check"
    /\ LET th == thr[t] IN
       CASE status[th] = STATUS_YIELD ->
               /\ status' = [status EXCEPT ![th] = STATUS_RUNNING]
               /\ IF warp[th] = 0
                    THEN /\ Suspend(t, "cl_yield")
                         /\ UNCHANGED stuck
                    ELSE /\ CallIsStuck(elapsed)
                         /\ IF isStuck(stuckCounter, elapsed).ret
                              THEN Suspend(t, "cl_yield")
                              ELSE /\ pc' = [pc EXCEPT ![t] = "cl_exec"]
                                   /\ UNCHANGED <<running, suspensions>>
               /\ UNCHANGED <<thr, useFlags, returnValue, promise, promiseValue,
                              waitFor, result>>
         [] status[th] = STATUS_YIELD_TICK ->
               /\ Suspend(t, "cl_yield")
               /\ UNCHANGED <<thr, useFlags, returnValue, promise, promiseValue,
                              waitFor, status, result, stuck>>
         [] OTHER ->
               /\ result' = [result EXCEPT ![t] = returnValue[t]]
               /\ pc' = [pc EXCEPT ![t] = "script"]
               /\ ClearLocals(t)
               /\ UNCHANGED <<running, status, stuck>>
    /\ UNCHANGED <<gsThread, warp, active, hasResumedFromPromise, calls, warned, asm>>

\* ----------------------------------------------- promise callbacks
\* the then callback without line 121
PromiseFulfilDropsValue(t, v) ==
    /\ running = None
    /\ promise[t] = "pending"
    /\ promise' = [promise EXCEPT ![t] = "fulfilled"]
    /\ promiseValue' = [promiseValue EXCEPT ![t] = v]
    /\ status' = [status EXCEPT ![thr[t]] = STATUS_RUNNING]
    /\ UNCHANGED <<ctl, warp, active, thr, useFlags, returnValue, waitFor,
                   suspensions, result, hasResumedFromPromise, stuck, calls,
                   warned, asm>>

\* the then callback writing to globalState.thread instead of the thread
\* waitPromise took at line 116
PromiseFulfilCurrentThread(t, v) ==
    /\ running = None
    /\ promise[t] = "pending"
    /\ promise' = [promise EXCEPT ![t] = "fulfilled"]
    /\ promiseValue' = [promiseValue EXCEPT ![t] = v]
    /\ returnValue' = [returnValue EXCEPT ![t] = v]
    /\ status' = [status EXCEPT ![gsThread] = STATUS_RUNNING]
    /\ UNCHANGED <<ctl, warp, active, thr, useFlags, waitFor, suspensions, result,
                   hasResumedFromPromise, stuck, calls, warned, asm>>

\* lines 120-123: the then callback
PromiseFulfil(t, v) ==
    /\ running = None
    /\ promise[t] = "pending"
    /\ promise' = [promise EXCEPT ![t] = "fulfilled"]
    /\ promiseValue' = [promiseValue EXCEPT ![t] = v]
    /\ returnValue' = [returnValue EXCEPT ![t] = v]
    /\ status' = [status EXCEPT ![thr[t]] = STATUS_RUNNING]
    /\ UNCHANGED <<ctl, warp, active, thr, useFlags, waitFor, suspensions, result,
                   hasResumedFromPromise, stuck, calls, warned, asm>>

\* the catch callback rethrowing instead of line 125
PromiseRejectKeepsStatus(t) ==
    /\ running = None
    /\ promise[t] = "pending"
    /\ warned < MaxLog
    /\ promise' = [promise EXCEPT ![t] = "rejected"]
    /\ warned' = warned + 1
    /\ UNCHANGED <<ctl, status, warp, active, thr, useFlags, returnValue,
                   promiseValue, waitFor, suspensions, result,
                   hasResumedFromPromise, stuck, calls, asm>>

\* lines 124-127: the catch callback
PromiseReject(t) ==
    /\ running = None
    /\ promise[t] = "pending"
    /\ warned < MaxLog
    /\ promise' = [promise EXCEPT ![t] = "rejected"]
    /\ status' = [status EXCEPT ![thr[t]] = STATUS_RUNNING]
    /\ warned' = warned + 1
    /\ UNCHANGED <<ctl, warp, active, thr, useFlags, returnValue, promiseValue,
                   waitFor, suspensions, result, hasResumedFromPromise, stuck,
                   calls, asm>>

\* -------------------------------------------------------- waitThreads
\* lines 68-70: the script writes `yield* waitThreads(startHats(..))`
CallWait(t, S) ==
    /\ running = t /\ pc[t] = "script"
    /\ thr' = [thr EXCEPT ![t] = gsThread]
    /\ waitFor' = [waitFor EXCEPT ![t] = S]
    /\ result' = [result EXCEPT ![t] = Undefined]
    /\ pc' = [pc EXCEPT ![t] = "wt_check"]
    /\ UNCHANGED <<gsThread, running, status, warp, active, useFlags, returnValue,
                   promise, promiseValue, suspensions, hasResumedFromPromise,
                   stuck, calls, warned, asm>>

\* the loop with its yield moved before the test of line 81
WaitCheckYieldsFirst(t) ==
    /\ running = t /\ pc[t] = "wt_check"
    /\ LET th == thr[t]
           anyRunning == \E u \in waitFor[t] : u \in active
           allWaiting == \A u \in waitFor[t] : isWaitingThread(u)
       IN IF ~anyRunning /\ suspensions[t] > 0
            THEN /\ pc' = [pc EXCEPT ![t] = "script"]
                 /\ ClearLocals(t)
                 /\ UNCHANGED <<running, status>>
            ELSE /\ status' = IF allWaiting
                                THEN [status EXCEPT ![th] = STATUS_YIELD_TICK]
                                ELSE status
                 /\ Suspend(t, "wt_yield")
                 /\ UNCHANGED <<thr, useFlags, returnValue, promise, promiseValue,
                                waitFor>>
    /\ UNCHANGED <<gsThread, warp, active, result, hasResumedFromPromise, stuck,
                   calls, warned, asm>>

\* the loop with line 88 testing for some waiting thread instead of all
WaitCheckAnyWaiting(t) ==
    /\ running = t /\ pc[t] = "wt_check"
    /\ LET th == thr[t]
           anyRunning == \E u \in waitFor[t] : u \in active
           allWaiting == \E u \in waitFor[t] : isWaitingThread(u)
       IN IF ~anyRunning
            THEN /\ pc' = [pc EXCEPT ![t] = "script"]
                 /\ ClearLocals(t)
                 /\ UNCHANGED <<running, status>>
            ELSE /\ status' = IF allWaiting
                                THEN [status EXCEPT ![th] = STATUS_YIELD_TICK]
                                ELSE status
                 /\ Suspend(t, "wt_yield")
                 /\ UNCHANGED <<thr, useFlags, returnValue, promise, promiseValue,
                                waitFor>>
    /\ UNCHANGED <<gsThread, warp, active, result, hasResumedFromPromise, stuck,
                   calls, warned, asm>>

\* lines 72-98: one turn of the loop
WaitCheck(t) ==
    /\ running = t /\ pc[t] = "wt_check"
    /\ LET th == thr[t]
           anyRunning == \E u \in waitFor[t] : u \in active
           allWaiting == \A u \in waitFor[t] : isWaitingThread(u)
       IN IF ~anyRunning
            THEN /\ pc' = [pc EXCEPT ![t] = "script"]
                 /\ ClearLocals(t)
                 /\ UNCHANGED <<running, status>>
            ELSE /\ status' = IF allWaiting
                                THEN [status EXCEPT ![th] = STATUS_YIELD_TICK]
                                ELSE status
                 /\ Suspend(t, "wt_yield")
                 /\ UNCHANGED <<thr, useFlags, returnValue, promise, promiseValue,
                                waitFor>>
    /\ UNCHANGED <<gsThread, warp, active, result, hasResumedFromPromise, stuck,
                   calls, warned, asm>>

\* ------------------------------------------------ the generated script
\* a `yield` of the script's own
ScriptYield(t) ==
    /\ running = t /\ pc[t] = "script"
    /\ pc' = [pc EXCEPT ![t] = "yield_script"]
    /\ result' = [result EXCEPT ![t] = Undefined]
    /\ running' = None
    /\ UNCHANGED <<gsThread, status, warp, active, loc, hasResumedFromPromise,
                   stuck, calls, warned, asm>>

\* lines 223-226: retire(), which makes the sequencer mark the thread DONE;
\* the script returns after it
Retire(t) ==
    /\ running = t /\ pc[t] = "script"
    /\ status' = [status EXCEPT ![gsThread] = STATUS_DONE]
    /\ pc' = [pc EXCEPT ![t] = "done"]
    /\ result' = [result EXCEPT ![t] = Undefined]
    /\ running' = None
    /\ UNCHANGED <<gsThread, warp, active, loc, hasResumedFromPromise, stuck,
                   calls, warned, asm>>

\* ----------------------------------------------------- callAddonBlock
\* the procedure codes a script calls addon blocks by
ProcCodes == {"p1"}
NoAddonCall == [code |-> None, invoked |-> 0]
\* what an addon block's callback does to the status of the thread that runs
\* it: << >> when it leaves it alone, <<s>> when it sets it to s
AddonEffects == {<< >>} \cup {<<s>> : s \in Statuses}

\* callAddonBlock yielding after every callback, without the test of line 214
CallAddonYieldsAlways(t, procedureCode, effect) ==
    /\ running = t /\ pc[t] = "script"
    /\ result' = [result EXCEPT ![t] = Undefined]
    /\ LET thread == gsThread IN
       IF procedureCode \in addonBlocks
         THEN /\ addonCall' = [addonCall EXCEPT ![t] =
                                 [code |-> procedureCode, invoked |-> 1]]
              /\ status' = IF effect = << >> THEN status
                           ELSE [status EXCEPT ![thread] = effect[1]]
              /\ thr' = [thr EXCEPT ![t] = thread]
              /\ Suspend(t, "ab_yield")
         ELSE /\ addonCall' = [addonCall EXCEPT ![t] =
                                 [code |-> procedureCode, invoked |-> 0]]
              /\ UNCHANGED <<status, pc, running, thr, suspensions>>
    /\ UNCHANGED <<gsThread, warp, active, useFlags, returnValue, promise,
                   promiseValue, waitFor, hasResumedFromPromise, stuck, calls,
                   warned, source, unit, assembled, ran, missing, eval, lib,
                   addonBlocks, evt>>

\* lines 202-218 up to the yield of line 215, or to the return
CallAddon(t, procedureCode, effect) ==
    /\ running = t /\ pc[t] = "script"
    /\ result' = [result EXCEPT ![t] = Undefined]
    /\ LET thread == gsThread IN
       IF procedureCode \in addonBlocks
         THEN LET after == IF effect = << >> THEN status
                           ELSE [status EXCEPT ![thread] = effect[1]]
              IN /\ addonCall' = [addonCall EXCEPT ![t] =
                                    [code |-> procedureCode, invoked |-> 1]]
                 /\ status' = after
                 /\ IF after[thread] = STATUS_PROMISE_WAIT
                      THEN /\ thr' = [thr EXCEPT ![t] = thread]
                           /\ Suspend(t, "ab_yield")
                      ELSE UNCHANGED <<pc, running, thr, suspensions>>
         ELSE /\ addonCall' = [addonCall EXCEPT ![t] =
                                 [code |-> procedureCode, invoked |-> 0]]
              /\ UNCHANGED <<status, pc, running, thr, suspensions>>
    /\ UNCHANGED <<gsThread, warp, active, useFlags, returnValue, promise,
                   promiseValue, waitFor, hasResumedFromPromise, stuck, calls,
                   warned, source, unit, assembled, ran, missing, eval, lib,
                   addonBlocks, evt>>

\* -------------------------------------------------- the environment
\* the addon that parked a thread in PROMISE_WAIT lets it run again
AddonResume(t) ==
    /\ running = None
    /\ pc[t] = "ab_yield"
    /\ status[t] = STATUS_PROMISE_WAIT
    /\ status' = [status EXCEPT ![t] = STATUS_RUNNING]
    /\ UNCHANGED <<ctl, warp, active, loc, result, hasResumedFromPromise, stuck,
                   calls, warned, asm>>

\* the sequencer retires a thread on somebody else's account (a stop of all
\* scripts, a restart of the script)
StopThread(t) ==
    /\ running = None
    /\ status[t] # STATUS_DONE
    /\ status' = [status EXCEPT ![t] = STATUS_DONE]
    /\ UNCHANGED <<ctl, warp, active, loc, result, hasResumedFromPromise, stuck,
                   calls, warned, asm>>

\* the sequencer starts a new tick: YIELD_TICK threads run again
SchedulerTick ==
    /\ running = None
    /\ \E t \in Threads : status[t] = STATUS_YIELD_TICK
    /\ status' = [t \in AllThreads |->
                    IF t \in Threads /\ status[t] = STATUS_YIELD_TICK
                      THEN STATUS_RUNNING ELSE status[t]]
    /\ UNCHANGED <<ctl, warp, active, loc, result, hasResumedFromPromise, stuck,
                   calls, warned, asm>>

\* a started thread goes its own way: its status changes
HatSetStatus(h, s) ==
    /\ running = None
    /\ h \in active
    /\ status[h] # s
    /\ status' = [status EXCEPT ![h] = s]
    /\ UNCHANGED <<ctl, warp, active, loc, result, hasResumedFromPromise, stuck,
                   calls, warned, asm>>

\* a started thread leaves runtime.threads
HatLeave(h) ==
    /\ running = None
    /\ h \in active
    /\ active' = active \ {h}
    /\ UNCHANGED <<ctl, status, warp, loc, result, hasResumedFromPromise, stuck,
                   calls, warned, asm>>

\* a bare call of isStuck() (SpecStuck)
IsStuckCall(elapsed) ==
    /\ calls < MaxCalls
    /\ calls' = calls + 1
    /\ CallIsStuck(elapsed)
    /\ UNCHANGED <<ctl, status, warp, active, loc, result, hasResumedFromPromise,
                   warned, asm>>

\* ------------------------------------------------------ insertRuntime
\* Object.keys(runtimeFunctions), in insertion order (lines 41-548)
RuntimeFunctionNames ==
    <<"isStuck", "startHats", "waitThreads", "executeInCompatibilityLayer",
      "callAddonBlock", "retire", "toBoolean", "compareGreaterThan",
      "compareLessThan", "randomInt", "randomFloat", "timer", "daysSince2000",
      "distance", "listGet", "listReplace", "listInsert", "listDelete",
      "listContains", "listIndexOf", "listContents", "colorToList", "mod">>

\* baseRuntime (lines 253, 264, 395)
BaseNames == <<"isWhiteSpace", "compareEqual", "listIndex">>

Range(q) == {q[i] : i \in 1..Len(q)}

\* A source text is a sequence of tokens.  A "call" token is a reference to
\* the primitive `name`; a "text" token is a piece of the script that is no
\* reference but spells the name (a string literal, a longer identifier).
Tokens == [kind : {"call", "text"}, name : Range(RuntimeFunctionNames)]
Sources == UNION {[1..n -> Tokens] : n \in 0..MaxTokens}

\* the primitives the script references
Referenced(src) == {src[i].name : i \in {j \in 1..Len(src) : src[j].kind = "call"}}

\* a test of the start of the source only (startsWith for includes)
includesAtStart(src, functionName) == Len(src) > 0 /\ src[1].name = functionName

\* source.includes(functionName), line 562
includes(src, functionName) == \E i \in 1..Len(src) : src[i].name = functionName

\* lines 559-568: the definitions of the unit, in order (the unit ends with
\* `return source`)
insertRuntime(src) ==
    BaseNames \o SelectSeq(RuntimeFunctionNames, LAMBDA f : includes(src, f))

\* the identifiers a definition of the library declares
Declares(f) ==
    CASE f = "isStuck" -> {"stuckCounter", "isStuck"}                       \* 41-42
      [] f = "executeInCompatibilityLayer" ->
            {"hasResumedFromPromise", "waitPromise", "executeInCompatibilityLayer"} \* 114-136
      [] OTHER -> {f}

\* the identifiers of the unit a definition uses, besides globalState
Uses(f) ==
    CASE f = "isStuck" -> {"stuckCounter"}                                  \* 44-46
      [] f = "executeInCompatibilityLayer" ->
            {"waitPromise", "hasResumedFromPromise", "isStuck"}             \* 160-172
      [] f = "compareEqual" -> {"isWhiteSpace"}                             \* 268
      [] f \in {"compareGreaterThan", "compareLessThan"} -> {"isWhiteSpace"} \* 290, 312
      [] f \in {"listGet", "listReplace", "listInsert", "listDelete"} ->
            {"listIndex"}                                                   \* 425-472
      [] f \in {"listContains", "listIndexOf"} -> {"compareEqual"}          \* 492, 507
      [] OTHER -> {}

Defined(u) == UNION {Declares(u[i]) : i \in 1..Len(u)}

\* scopedEval's first step, line 577
InsertRuntime ==
    /\ ~assembled
    /\ unit' = insertRuntime(source)
    /\ assembled' = TRUE
    /\ UNCHANGED <<ctl, status, warp, active, loc, result, hasResumedFromPromise,
                   stuck, calls, warned, source, ran, missing, eval, lib, addon, evt>>

\* the script runs a primitive of its unit through every identifier it uses
RunPrimitive(f) ==
    /\ assembled
    /\ f \in Range(unit)
    /\ ran' = f
    /\ missing' = Uses(f) \ Defined(unit)
    /\ UNCHANGED <<ctl, status, warp, active, loc, result, hasResumedFromPromise,
                   stuck, calls, warned, source, unit, assembled, eval, lib,
                   addon, evt>>

\* ---------------------------------------------------------- listIndex
MaxLength == 3      \* list lengths range over 0..MaxLength
MaxWraps == 1       \* numbers reach MaxWraps times 2^32 to either side
RandomSteps == 4    \* Math.random() draws q / RandomSteps, q in 0..RandomSteps-1

MaxInt32 == 2147483647
MinInt32 == (-MaxInt32) - 1

\* A JavaScript number is NaN or wraps * 2^32 + low + half / 2, with low a
\* signed 32 bit integer: the 32 bit wrap of an integer is its `low`.
Numbers ==
    [nan : {TRUE}, wraps : {0}, low : {0}, half : {0}]
      \cup [nan : {FALSE}, wraps : (-MaxWraps)..MaxWraps,
            low : {MinInt32, MaxInt32} \cup ((-1)..(MaxLength + 1)), half : {0, 1}]
Num(k, r, h) == [nan |-> FALSE, wraps |-> k, low |-> r, half |-> h]
NaN == [nan |-> TRUE, wraps |-> 0, low |-> 0, half |-> 0]

\* the strings a script passes as an index
IndexTexts == {"last", "random", "*", "all", "", "abc", "2", "2.5"}
\* the index values: numbers and strings
IndexVals == [type : {"number"}, num : Numbers, text : {""}]
               \cup [type : {"string"}, num : {NaN}, text : IndexTexts]

\* unary plus on a string
ToNumber(text) ==
    CASE text = "" -> Num(0, 0, 0)
      [] text = "2" -> Num(0, 2, 0)
      [] text = "2.5" -> Num(0, 2, 1)
      [] OTHER -> NaN

IsNegative(n) == n.wraps < 0 \/ (n.wraps = 0 /\ n.low < 0)

\* `n | 0`: NaN gives 0; otherwise drop the fraction towards zero and keep the
\* low 32 bits as a signed integer
ToInt32(n) ==
    IF n.nan THEN 0
    ELSE IF IsNegative(n) /\ n.half = 1
           THEN (IF n.low = MaxInt32 THEN MinInt32 ELSE n.low + 1)
           ELSE n.low

\* lines 395-416; rnd / RandomSteps is what Math.random() draws
listIndex(idx, len, rnd) ==
    IF idx.type # "number" /\ idx.text = "last"
      THEN (IF len > 0 THEN len - 1 ELSE -1)
    ELSE IF idx.type # "number" /\ idx.text \in {"random", "*"}
      THEN (IF len > 0 THEN (rnd * len) \div RandomSteps ELSE -1)
    ELSE LET n == IF idx.type = "number" THEN idx.num ELSE ToNumber(idx.text)
             i == ToInt32(n)      \* `+index || 0` turns NaN into 0, as `| 0` does
         IN IF i < 1 \/ i > len THEN -1 ELSE i - 1

NoIndex == index = [type |-> "string", num |-> NaN, text |-> ""] /\ length = 0

\* one call listIndex(index, length)
ListIndexCall(rnd) ==
    /\ listIndexResult = << >>
    /\ listIndexResult' = <<listIndex(index, length, rnd)>>
    /\ UNCHANGED <<ctl, status, warp, active, loc, result, hasResumedFromPromise,
                   stuck, calls, warned, source, unit, assembled, ran, missing,
                   eval, index, length, lst, cmp, addon, evt>>

\* ------------------------------------- listReplace, listInsert, listDelete
MaxListCalls == 3   \* list calls in one run

\* the index values a script's list blocks pass: the strings and the
\* non-negative integers
ScriptIndexes ==
    {i \in IndexVals : i.type = "string"
                         \/ (~i.num.nan /\ i.num.wraps = 0 /\ i.num.half = 0
                             /\ i.num.low >= 0)}
NoCall == [op |-> "none", idx |-> [type |-> "string", num |-> NaN, text |-> ""]]

\* Array.prototype.splice(i, n, ...items), with i a 0 based position
Splice(l, i, n, items) == SubSeq(l, 1, i) \o items \o SubSeq(l, i + n + 1, Len(l))

\* the call is counted and recorded
Called(op, i) ==
    /\ listCalls < MaxListCalls
    /\ listCalls' = listCalls + 1
    /\ lastCall' = [op |-> op, idx |-> i]

\* lines 438-445
ListReplace(i, value, rnd) ==
    /\ Called("listReplace", i)
    /\ LET at == listIndex(i, Len(listValue), rnd) IN
       IF at = -1
         THEN UNCHANGED <<listValue, monitorUpToDate>>
         ELSE /\ listValue' = [listValue EXCEPT ![at + 1] = value]
              /\ monitorUpToDate' = FALSE
    /\ UNCHANGED <<ctl, status, warp, active, loc, result, hasResumedFromPromise,
                   stuck, calls, warned, source, unit, assembled, ran, missing,
                   eval, lidx, cmp, addon, evt>>

\* lines 453-460
ListInsert(i, value, rnd) ==
    /\ Len(listValue) < MaxLength
    /\ Called("listInsert", i)
    /\ LET at == listIndex(i, Len(listValue) + 1, rnd) IN
       IF at = -1
         THEN UNCHANGED <<listValue, monitorUpToDate>>
         ELSE /\ listValue' = Splice(listValue, at, 0, <<value>>)
              /\ monitorUpToDate' = FALSE
    /\ UNCHANGED <<ctl, status, warp, active, loc, result, hasResumedFromPromise,
                   stuck, calls, warned, source, unit, assembled, ran, missing,
                   eval, lidx, cmp, addon, evt>>

\* lines 467-478
ListDelete(i, rnd) ==
    /\ Called("listDelete", i)
    /\ IF i.type = "string" /\ i.text = "all"
         THEN /\ listValue' = << >>
              /\ UNCHANGED monitorUpToDate
         ELSE LET at == listIndex(i, Len(listValue), rnd) IN
              IF at = -1
                THEN UNCHANGED <<listValue, monitorUpToDate>>
                ELSE /\ listValue' = Splice(listValue, at, 1, << >>)
                     /\ monitorUpToDate' = FALSE
    /\ UNCHANGED <<ctl, status, warp, active, loc, result, hasResumedFromPromise,
                   stuck, calls, warned, source, unit, assembled, ran, missing,
                   eval, lidx, cmp, addon, evt>>

\* the list's monitor rebuilds its cached copy and marks it up to date
MonitorRefresh ==
    /\ ~monitorUpToDate
    /\ monitorUpToDate' = TRUE
    /\ UNCHANGED <<ctl, status, warp, active, loc, result, hasResumedFromPromise,
                   stuck, calls, warned, source, unit, assembled, ran, missing,
                   eval, lidx, listValue, lastCall, listCalls, cmp, addon, evt>>

\* ------------------------------------------- isWhiteSpace, compareEqual
MaxChars == 2       \* characters of a string operand

\* A string operand is a sequence of characters.
Chars == {" ", "0", "1", "a", "A"}
Strings == UNION {[1..n -> Chars] : n \in 0..MaxChars}
\* the operands: numbers (NaN among them), strings and null
CompareVals ==
    [type : {"number"}, num : {NaN} \cup {Num(0, n, 0) : n \in {0, 1, 10}}, str : {<< >>}]
      \cup [type : {"string"}, num : {NaN}, str : Strings]
      \cup [type : {"null"}, num : {NaN}, str : {<< >>}]

RECURSIVE TrimStart(_)
TrimStart(str) ==
    IF str # << >> /\ Head(str) = " " THEN TrimStart(Tail(str)) ELSE str
RECURSIVE TrimEnd(_)
TrimEnd(str) ==
    IF str # << >> /\ str[Len(str)] = " " THEN TrimEnd(SubSeq(str, 1, Len(str) - 1))
    ELSE str
\* String.prototype.trim
Trim(str) == TrimEnd(TrimStart(str))

DigitChars == {"0", "1"}
DigitValue(c) == IF c = "1" THEN 1 ELSE 0
DigitChar(d) == IF d = 1 THEN "1" ELSE "0"
RECURSIVE Decimal(_)
Decimal(str) ==
    IF str = << >> THEN 0
    ELSE Decimal(SubSeq(str, 1, Len(str) - 1)) * 10 + DigitValue(str[Len(str)])

\* unary plus: a string is trimmed and read as a decimal, the empty string
\* is 0, any other text is NaN; null is 0
Plus(v) ==
    CASE v.type = "number" -> v.num
      [] v.type = "null" -> Num(0, 0, 0)
      [] OTHER ->
           LET t == Trim(v.str) IN
           IF \A i \in 1..Len(t) : t[i] \in DigitChars
             THEN Num(0, Decimal(t), 0) ELSE NaN

\* '' + v
StringOf(v) ==
    CASE v.type = "string" -> v.str
      [] v.type = "null" -> <<"n", "u", "l", "l">>
      [] OTHER ->
           IF v.num.nan THEN <<"N", "a", "N">>
           ELSE IF v.num.low < 10 THEN <<DigitChar(v.num.low)>>
           ELSE <<DigitChar(v.num.low \div 10), DigitChar(v.num.low % 10)>>

LowerChar(c) == CASE c = "A" -> "a" [] c = "N" -> "n" [] OTHER -> c
\* String.prototype.toLowerCase
ToLowerCase(str) == [i \in 1..Len(str) |-> LowerChar(str[i])]

\* lines 253-256
isWhiteSpace(val) ==
    val.type = "null" \/ (val.type = "string" /\ Len(Trim(val.str)) = 0)

IsZero(n) == ~n.nan /\ n.wraps = 0 /\ n.low = 0 /\ n.half = 0

\* compareEqual without lines 267-271: a blank string counts as the number 0
compareEqualBlankIsZero(a, b) ==
    LET n1 == Plus(a)
        n2 == Plus(b)
    IN IF n1.nan \/ n2.nan
         THEN ToLowerCase(StringOf(a)) = ToLowerCase(StringOf(b))
         ELSE n1 = n2

\* lines 264-279
compareEqual(a, b) ==
    LET p1 == Plus(a)
        p2 == Plus(b)
        n1 == IF IsZero(p1) /\ isWhiteSpace(a) THEN NaN ELSE p1
        n2 == IF ~(IsZero(p1) /\ isWhiteSpace(a)) /\ IsZero(p2) /\ isWhiteSpace(b)
                THEN NaN ELSE p2
    IN IF n1.nan \/ n2.nan
         THEN ToLowerCase(StringOf(a)) = ToLowerCase(StringOf(b))
         ELSE n1 = n2

NoCompare ==
    /\ v1 = [type |-> "null", num |-> NaN, str |-> << >>]
    /\ v2 = [type |-> "null", num |-> NaN, str |-> << >>]

\* one call compareEqual(v1, v2)
CompareEqualCall ==
    /\ compareResult = << >>
    /\ compareResult' = <<compareEqual(v1, v2)>>
    /\ UNCHANGED <<ctl, status, warp, active, loc, result, hasResumedFromPromise,
                   stuck, calls, warned, source, unit, assembled, ran, missing,
                   eval, lidx, lst, v1, v2, addon, evt>>

\* ------------------------------------------------------- EventEmitter
MaxListeners == 3   \* on() calls in one run

EventNames == {"e1", "e2"}
\* the functions handed to on()
Listeners == {"f", "g"}
\* the rest parameter of emit: the array of the arguments after eventName
Params == {<<v>> : v \in Vals}

\* JavaScript values by type: the {eventName, listener} object on() pushes,
\* a string, a number
ObjectVal(eventName, listener) ==
    [type |-> "object", eventName |-> eventName, listener |-> listener]
StringVal(text) == [type |-> "string", text |-> text]
NumberVal(n) == [type |-> "number", n |-> n]

\* ===: values of different types are never equal
StrictEquals(a, b) == a.type = b.type /\ a = b

\* Array.prototype.indexOf: the 0 based position of the first element that
\* is === x, or -1
indexOf(list, x) ==
    LET hits == {i \in 1..Len(list) : StrictEquals(list[i], x)} IN
    IF hits = {} THEN -1
    ELSE (CHOOSE i \in hits : \A j \in hits : i <= j) - 1

\* value.listener: an object's own field; a number or a string has none
ListenerOf(value) == IF value.type = "object" THEN value.listener ELSE Undefined

NoEmit == [eventName |-> None, param |-> << >>, kind |-> "none", error |-> None,
           invoked |-> << >>]

\* src/unnamed/part_000, lines 79-81: push {eventName, listener}
On(eventName, listener) ==
    /\ Len(listerMap) < MaxListeners
    /\ listerMap' = Append(listerMap, ObjectVal(eventName, listener))
    /\ UNCHANGED <<ctl, status, warp, active, loc, result, hasResumedFromPromise,
                   stuck, calls, warned, source, unit, assembled, ran, missing,
                   eval, lib, addon, lastEmit>>

\* src/unnamed/part_000, lines 82-85: what emit calls, and how it ends
emit(map, eventName, param) ==
    LET emitter == NumberVal(indexOf(map, StringVal(eventName)))
        listener == ListenerOf(emitter)
    IN IF listener \in Listeners
         THEN [kind |-> "returned", error |-> None,
               invoked |-> <<[listener |-> listener, args |-> <<param>>]>>]
         ELSE [kind |-> "thrown", error |-> "TypeError", invoked |-> << >>]

\* one call emitter.emit(eventName, ...param)
Emit(eventName, param) ==
    /\ LET r == emit(listerMap, eventName, param) IN
         lastEmit' = [eventName |-> eventName, param |-> param, kind |-> r.kind,
                      error |-> r.error, invoked |-> r.invoked]
    /\ UNCHANGED <<ctl, status, warp, active, loc, result, hasResumedFromPromise,
                   stuck, calls, warned, source, unit, assembled, ran, missing,
                   eval, lib, addon, listerMap>>

\* --------------------------------------------------------- scopedEval
\* what `new Function('globalState', withRuntime)(globalState)` throws: a
\* SyntaxError for a text that does not parse, or whatever the unit's own top
\* level throws
EvalErrors == {"SyntaxError", "TypeError"}
\* the evaluation facility on the unit at hand: the error it throws, or None
\* and the value the unit returns
Facilities ==
    {[throws |-> None, value |-> v] : v \in Vals}
      \cup {[throws |-> e, value |-> Undefined] : e \in EvalErrors}
NoFacility == [throws |-> None, value |-> Undefined]
NoOutcome == [kind |-> "none", value |-> Undefined, error |-> None]

\* scopedEval whose catch block rethrows without line 580
scopedEvalSilent(src, f) ==
    IF f.throws = None
      THEN [log |-> << >>, kind |-> "returned", value |-> f.value, error |-> None]
      ELSE [log |-> << >>, kind |-> "thrown", value |-> Undefined, error |-> f.throws]

\* lines 575-583 after insertRuntime: what is logged and how the call ends
scopedEval(src, f) ==
    IF f.throws = None
      THEN [log |-> << >>, kind |-> "returned", value |-> f.value, error |-> None]
      ELSE [log |-> <<src>>, kind |-> "thrown", value |-> Undefined, error |-> f.throws]

\* execute.scopedEval(source)
ScopedEval ==
    /\ outcome.kind = "none"
    /\ unit' = insertRuntime(source)
    /\ assembled' = TRUE
    /\ LET r == scopedEval(source, facility) IN
         /\ errorLog' = errorLog \o r.log
         /\ outcome' = [kind |-> r.kind, value |-> r.value, error |-> r.error]
    /\ UNCHANGED <<ctl, status, warp, active, loc, result, hasResumedFromPromise,
                   stuck, calls, warned, source, ran, missing, facility, lib,
                   addon, evt>>

\* ------------------------------------------------------ specification
InitCore ==
    /\ gsThread = None
    /\ running = None
    /\ pc = [t \in Threads |-> "start"]
    /\ status = [t \in AllThreads |-> STATUS_RUNNING]
    /\ active = AllThreads
    /\ thr = [t \in Threads |-> None]
    /\ useFlags = [t \in Threads |-> FALSE]
    /\ returnValue = [t \in Threads |-> Undefined]
    /\ promise = [t \in Threads |-> "none"]
    /\ promiseValue = [t \in Threads |-> Undefined]
    /\ waitFor = [t \in Threads |-> {}]
    /\ suspensions = [t \in Threads |-> 0]
    /\ result = [t \in Threads |-> Undefined]
    /\ hasResumedFromPromise = FALSE
    /\ stuckCounter = 0
    /\ timerQueried = FALSE
    /\ stuckResult = FALSE
    /\ stuckElapsed = 0
    /\ calls = 0
    /\ warned = 0
    /\ unit = << >>
    /\ assembled = FALSE
    /\ ran = None
    /\ missing = {}
    /\ errorLog = << >>
    /\ outcome = NoOutcome
    /\ listIndexResult = << >>
    /\ listValue = << >>
    /\ monitorUpToDate = FALSE
    /\ lastCall = NoCall
    /\ listCalls = 0
    /\ compareResult = << >>
    /\ addonCall = [t \in Threads |-> NoAddonCall]
    /\ listerMap = << >>
    /\ lastEmit = NoEmit

Init ==
    /\ InitCore
    /\ warp = [t \in AllThreads |-> 0]
    /\ source = << >>
    /\ facility = NoFacility
    /\ NoIndex
    /\ NoCompare
    /\ addonBlocks = {}

Next ==
    \/ \E t \in Threads : Execute(t)
    \/ \E t \in Threads, flags \in BOOLEAN : CallCompat(t, flags)
    \/ \E t \in Threads, kind \in ResultKinds, v \in Vals, e \in PrimitiveEffects :
          Invoke(t, kind, v, e)
    \/ \E t \in Threads, elapsed \in ElapsedVals : CompatLoop(t, elapsed)
    \/ \E t \in Threads, v \in Vals : PromiseFulfil(t, v)
    \/ \E t \in Threads : PromiseReject(t)
    \/ \E t \in Threads : ScriptYield(t)
    \/ \E t \in Threads : Retire(t)
    \/ SchedulerTick

Spec == Init /\ [][Next]_vars

\* one thread, in or out of warp mode, in the compatibility layer
InitCompat ==
    /\ InitCore
    /\ warp \in {[t \in AllThreads |-> IF t = "t1" THEN w ELSE 0] : w \in 0..MaxWarp}
    /\ source = << >>
    /\ facility = NoFacility
    /\ NoIndex
    /\ NoCompare
    /\ addonBlocks = {}

NextCompat ==
    \/ Execute("t1")
    \/ \E flags \in BOOLEAN : CallCompat("t1", flags)
    \/ \E kind \in ResultKinds, v \in Vals, e \in PrimitiveEffects :
          Invoke("t1", kind, v, e)
    \/ \E elapsed \in ElapsedVals : CompatLoop("t1", elapsed)
    \/ \E v \in Vals : PromiseFulfil("t1", v)
    \/ PromiseReject("t1")
    \/ SchedulerTick

SpecCompat == InitCompat /\ [][NextCompat]_vars

\* The same under the scheduling the runtime gives: a generator on the call
\* stack runs on to its next yield, the sequencer steps every thread that is
\* RUNNING or YIELD, and ticks keep coming.  A pending promise need never
\* settle.
FairCompat ==
    /\ WF_vars(Execute("t1"))
    /\ WF_vars(\E flags \in BOOLEAN : CallCompat("t1", flags))
    /\ WF_vars(\E kind \in ResultKinds, v \in Vals, e \in PrimitiveEffects :
                  Invoke("t1", kind, v, e))
    /\ WF_vars(\E elapsed \in ElapsedVals : CompatLoop("t1", elapsed))
    /\ WF_vars(SchedulerTick)

SpecCompatFair == InitCompat /\ [][NextCompat]_vars /\ FairCompat

\* one thread waiting for the threads startHats gave it
NextWait ==
    \/ Execute("t1")
    \/ \E S \in SUBSET Hats : CallWait("t1", S)
    \/ WaitCheck("t1")
    \/ ScriptYield("t1")
    \/ SchedulerTick
    \/ \E h \in Hats, s \in Statuses : HatSetStatus(h, s)
    \/ \E h \in Hats : HatLeave(h)

SpecWait == Init /\ [][NextWait]_vars

\* a fresh unit and its isStuck
NextStuck == \E elapsed \in ElapsedVals : IsStuckCall(elapsed)

SpecStuck == Init /\ [][NextStuck]_vars

\* insertRuntime on every source text of the bound
InitAssemble ==
    /\ InitCore
    /\ warp = [t \in AllThreads |-> 0]
    /\ source \in Sources
    /\ facility = NoFacility
    /\ NoIndex
    /\ NoCompare
    /\ addonBlocks = {}

NextAssemble ==
    \/ InsertRuntime
    \/ \E f \in Range(RuntimeFunctionNames) \cup Range(BaseNames) : RunPrimitive(f)

SpecAssemble == InitAssemble /\ [][NextAssemble]_vars

\* scopedEval on every source text of the bound, evaluable or not
InitEval ==
    /\ InitCore
    /\ warp = [t \in AllThreads |-> 0]
    /\ source \in Sources
    /\ facility \in Facilities
    /\ NoIndex
    /\ NoCompare
    /\ addonBlocks = {}

NextEval == ScopedEval

SpecEval == InitEval /\ [][NextEval]_vars

\* listIndex on every index value and length of the bound
InitIndex ==
    /\ InitCore
    /\ warp = [t \in AllThreads |-> 0]
    /\ source = << >>
    /\ facility = NoFacility
    /\ index \in IndexVals
    /\ length \in 0..MaxLength
    /\ NoCompare
    /\ addonBlocks = {}

NextIndex == \E rnd \in 0..(RandomSteps - 1) : ListIndexCall(rnd)

SpecIndex == InitIndex /\ [][NextIndex]_vars

\* a list under the list blocks of a script and its monitor
NextList ==
    \/ \E i \in ScriptIndexes, v \in Vals, rnd \in 0..(RandomSteps - 1) :
          ListReplace(i, v, rnd)
    \/ \E i \in ScriptIndexes, v \in Vals, rnd \in 0..(RandomSteps - 1) :
          ListInsert(i, v, rnd)
    \/ \E i \in ScriptIndexes, rnd \in 0..(RandomSteps - 1) : ListDelete(i, rnd)
    \/ MonitorRefresh

SpecList == Init /\ [][NextList]_vars

\* compareEqual on every pair of operands of the bound
InitCompare ==
    /\ InitCore
    /\ warp = [t \in AllThreads |-> 0]
    /\ source = << >>
    /\ facility = NoFacility
    /\ NoIndex
    /\ v1 \in CompareVals
    /\ v2 \in CompareVals
    /\ addonBlocks = {}

NextCompare == CompareEqualCall

SpecCompare == InitCompare /\ [][NextCompare]_vars

\* two compiled threads calling addon blocks, registered or not
InitAddon ==
    /\ InitCore
    /\ warp = [t \in AllThreads |-> 0]
    /\ source = << >>
    /\ facility = NoFacility
    /\ NoIndex
    /\ NoCompare
    /\ addonBlocks \in SUBSET ProcCodes

NextAddon ==
    \/ \E t \in Threads : Execute(t)
    \/ \E t \in Threads, code \in ProcCodes, e \in AddonEffects : CallAddon(t, code, e)
    \/ \E t \in Threads : AddonResume(t)
    \/ \E t \in Threads : ScriptYield(t)
    \/ \E t \in Threads : Retire(t)
    \/ SchedulerTick

SpecAddon == InitAddon /\ [][NextAddon]_vars

\* two compiled threads in the compatibility layer and in waitThreads on one
\* another, each of which the sequencer may retire while it is parked
NextThreads ==
    \/ \E t \in Threads : Execute(t)
    \/ \E t \in Threads, flags \in BOOLEAN : CallCompat(t, flags)
    \/ \E t \in Threads, kind \in ResultKinds, v \in Vals, e \in PrimitiveEffects :
          Invoke(t, kind, v, e)
    \/ \E t \in Threads, elapsed \in ElapsedVals : CompatLoop(t, elapsed)
    \/ \E t \in Threads, v \in Vals : PromiseFulfil(t, v)
    \/ \E t \in Threads : PromiseReject(t)
    \/ \E t \in Threads : \E S \in SUBSET (Threads \ {t}) : CallWait(t, S)
    \/ \E t \in Threads : WaitCheck(t)
    \/ \E t \in Threads : ScriptYield(t)
    \/ \E t \in Threads : Retire(t)
    \/ SchedulerTick
    \/ \E t \in Threads : StopThread(t)

SpecThreads == Init /\ [][NextThreads]_vars

\* an EventEmitter under any sequence of on and emit calls
NextEmitter ==
    \/ \E e \in EventNames, l \in Listeners : On(e, l)
    \/ \E e \in EventNames, p \in Params : Emit(e, p)

SpecEmitter == Init /\ [][NextEmitter]_vars

\* ------------------------------------------------------------- claims
\* the places where a generator rests between two execute calls
RestPoints ==
    {"start", "yield_script", "wp_yield", "cl_yield", "wt_yield", "ab_yield", "done"}

\* C1: execute(t) sets globalState.thread to t and resumes t's generator, and
\* only t's, up to its next yield or return; while the generator runs and when
\* execute returns, globalState.thread is t.
C1_ExecuteStepsItsThread ==
    [][ /\ (running = None /\ pc' # pc) =>
              \E t \in Threads :
                 /\ gsThread' = t
                 /\ running' = t
                 /\ pc[t] \in RestPoints
                 /\ \A u \in Threads \ {t} : pc'[u] = pc[u]
        /\ running # None =>
              /\ gsThread = running
              /\ gsThread' = gsThread
              /\ running' \in {running, None}
              /\ \A u \in Threads \ {running} : pc'[u] = pc[u]
              /\ running' = None => pc'[running] \in RestPoints
      ]_vars

\* C1 witness: execute("t2") has returned at a yield after execute("t1") did
C1_Witness ==
    /\ running = None
    /\ gsThread = "t2"
    /\ pc["t2"] = "cl_yield"
    /\ pc["t1"] = "wp_yield"

\* C2: waitPromise sets the awaiting thread's status to PROMISE_WAIT and
\* suspends; the fulfilment of the promise sets the status to RUNNING; the next
\* step of the thread returns the fulfilment value to the script without
\* another suspension.
C2_AwaitFulfilled ==
    [][ \A t \in Threads :
          /\ (pc[t] # "wp_yield" /\ pc'[t] = "wp_yield") =>
                /\ status'[t] = STATUS_PROMISE_WAIT
                /\ running' = None
          /\ (promise[t] = "pending" /\ promise'[t] = "fulfilled") =>
                /\ status[t] = STATUS_PROMISE_WAIT
                /\ status'[t] = STATUS_RUNNING
                /\ pc'[t] = "wp_yield"
          /\ (pc[t] = "wp_yield" /\ promise[t] = "fulfilled" /\ pc'[t] # "wp_yield") =>
                /\ result'[t] = promiseValue[t]
                /\ result'[t] \in Vals
                /\ pc'[t] = "script"
                /\ running' = t
      ]_vars

\* C2 witness: t1 awaits a promise that was fulfilled with "a" after t1
\* suspended, and can be stepped again
C2_Witness ==
    /\ pc["t1"] = "wp_yield"
    /\ promise["t1"] = "fulfilled"
    /\ promiseValue["t1"] = "a"
    /\ status["t1"] = STATUS_RUNNING
    /\ running = None

\* C3: a rejection of the awaited promise takes the thread from PROMISE_WAIT to
\* RUNNING and logs one warning, and nothing else logs one; the thread stays
\* suspended where it is, and its next step gives the script undefined and
\* goes on running.
C3_AwaitRejected ==
    [][ /\ \A t \in Threads :
             /\ (promise[t] = "pending" /\ promise'[t] = "rejected") =>
                   /\ status[t] = STATUS_PROMISE_WAIT
                   /\ status'[t] = STATUS_RUNNING
                   /\ warned' = warned + 1
                   /\ pc'[t] = pc[t]
             /\ (pc[t] = "wp_yield" /\ promise[t] = "rejected" /\ pc'[t] # "wp_yield") =>
                   /\ result'[t] = Undefined
                   /\ pc'[t] = "script"
                   /\ running' = t
        /\ warned' # warned =>
              \E t \in Threads : promise[t] = "pending" /\ promise'[t] = "rejected"
      ]_vars

\* C3 witness: t1's promise was rejected, one warning was logged, and t1 can
\* be stepped again
C3_Witness ==
    /\ pc["t1"] = "wp_yield"
    /\ promise["t1"] = "rejected"
    /\ status["t1"] = STATUS_RUNNING
    /\ warned = 1
    /\ running = None

\* C5: an invocation of the primitive that returns a promise-shaped value makes
\* the helper wait in waitPromise; once resumed the helper returns the value
\* the promise was fulfilled with (undefined after a rejection) without another
\* invocation, and hasResumedFromPromise becomes true iff useFlags is set: it
\* changes at no other step.
C5_PromiseResult ==
    [][ /\ \A t \in Threads :
             /\ (pc[t] = "cl_exec" /\ pc'[t] # "cl_exec") =>
                   IF promise'[t] = "none"
                     THEN pc'[t] = "cl_check"
                     ELSE pc'[t] = "wp_yield" /\ running' = None
             /\ (pc[t] = "wp_yield" /\ pc'[t] # "wp_yield") =>
                   /\ pc'[t] = "script"
                   /\ result'[t] = IF promise[t] = "fulfilled"
                                     THEN promiseValue[t] ELSE Undefined
                   /\ hasResumedFromPromise' = (hasResumedFromPromise \/ useFlags[t])
        /\ hasResumedFromPromise' # hasResumedFromPromise =>
              \E t \in Threads : pc[t] = "wp_yield" /\ pc'[t] = "script" /\ useFlags[t]
      ]_vars

\* C5 witness: a re-invocation inside the yield loop returned a promise, which
\* was fulfilled, while an earlier promise already set the flag
C5_Witness ==
    /\ pc["t1"] = "wp_yield"
    /\ suspensions["t1"] = 2
    /\ promise["t1"] = "fulfilled"
    /\ status["t1"] = STATUS_RUNNING
    /\ ~useFlags["t1"]
    /\ hasResumedFromPromise
    /\ pc["t2"] = "start"

\* C4: in the yield loop of executeInCompatibilityLayer, a status left at YIELD
\* is reset to RUNNING and the helper suspends iff thread.warp is 0 or isStuck()
\* returned true (isStuck is called only in warp mode); a status of YIELD_TICK
\* always suspends and is left as it is; with or without a suspension the
\* primitive is invoked next, and its result goes through the promise test.
C4_YieldLoop ==
    [][ \A t \in Threads :
          /\ (pc[t] = "cl_check" /\ status[t] = STATUS_YIELD) =>
                /\ status'[t] = STATUS_RUNNING
                /\ (running' = None) <=> (warp[t] = 0 \/ stuckResult')
                /\ pc'[t] = IF running' = None THEN "cl_yield" ELSE "cl_exec"
                /\ IF warp[t] = 0
                     THEN stuckCounter' = stuckCounter
                     ELSE stuckCounter' = (stuckCounter + 1) % StuckLimit
          /\ (pc[t] = "cl_check" /\ status[t] = STATUS_YIELD_TICK) =>
                /\ status'[t] = STATUS_YIELD_TICK
                /\ running' = None
                /\ pc'[t] = "cl_yield"
          /\ (pc[t] = "cl_check" /\ status[t] \notin {STATUS_YIELD, STATUS_YIELD_TICK}) =>
                /\ pc'[t] = "script"
                /\ result'[t] = returnValue[t]
          /\ (pc[t] = "cl_yield" /\ pc'[t] # "cl_yield") =>
                /\ pc'[t] = "cl_exec"
                /\ running' = t
          /\ (pc[t] = "cl_exec" /\ pc'[t] # "cl_exec") =>
                \/ pc'[t] = "cl_check" /\ promise'[t] = "none"
                \/ pc'[t] = "wp_yield" /\ promise'[t] # "none"
      ]_vars

\* C4 witness: in warp mode the helper suspended on YIELD because isStuck()
\* returned true
C4_Witness ==
    /\ warp["t1"] = 1
    /\ pc["t1"] = "cl_yield"
    /\ status["t1"] = STATUS_RUNNING
    /\ stuckResult
    /\ stuckCounter = 0
    /\ running = None

\* C6: on a fresh unit the calls of isStuck() numbered 100, 200, ... and no
\* others read the timer; such a call returns true iff the elapsed time is over
\* 500 ms, every other call returns false; the counter is the number of calls
\* modulo 100, so it is reset by every 100th call and stays in 0..99.
C6_IsStuckEvery100 ==
    /\ stuckCounter \in 0..(StuckLimit - 1)
    /\ stuckCounter = calls % StuckLimit
    /\ calls > 0 =>
          /\ timerQueried <=> (calls % StuckLimit = 0)
          /\ stuckResult <=> (calls % StuckLimit = 0 /\ stuckElapsed > StuckMillis)

\* C6 witness: the 200th call read the timer at 500 ms and returned false,
\* with the counter back at 0
C6_Witness ==
    /\ calls = 2 * StuckLimit
    /\ timerQueried
    /\ stuckElapsed = StuckMillis
    /\ ~stuckResult
    /\ stuckCounter = 0

\* C7: waitThreads enters its first check without having suspended; a check
\* that finds no given thread in runtime.threads returns on the spot, without
\* suspending; a check that finds one suspends once, and the resumption leads
\* to the next check.
C7_WaitUntilNoneActive ==
    [][ \A t \in Threads :
          /\ (pc[t] = "script" /\ pc'[t] = "wt_check") =>
                /\ suspensions'[t] = 0
                /\ running' = t
          /\ pc[t] = "wt_check" =>
                IF waitFor[t] \cap active = {}
                  THEN /\ pc'[t] = "script"
                       /\ running' = t
                  ELSE /\ pc'[t] = "wt_yield"
                       /\ running' = None
                       /\ suspensions[t] < MaxSuspend =>
                             suspensions'[t] = suspensions[t] + 1
          /\ (pc[t] = "wt_yield" /\ pc'[t] # "wt_yield") =>
                /\ pc'[t] = "wt_check"
                /\ running' = t
      ]_vars

\* C7 witness: the first check of waitThreads([h1, h2]) with both threads out
\* of runtime.threads
C7_Witness ==
    /\ running = "t1"
    /\ pc["t1"] = "wt_check"
    /\ waitFor["t1"] = {"h1", "h2"}
    /\ suspensions["t1"] = 0
    /\ active \cap Hats = {}

C9_ExactlyReferenced ==
    assembled => Range(unit) = Range(BaseNames) \cup Referenced(source)

\* C9 as amended: the unit holds each base helper and each primitive once; it
\* holds every primitive the script references, and a primitive it holds is a
\* base helper or is spelled somewhere in the source text, and every primitive
\* spelled there is held.
C9_ExactlySpelled ==
    assembled =>
       /\ Len(unit) = Cardinality(Range(unit))
       /\ Range(BaseNames) \subseteq Range(unit)
       /\ Referenced(source) \subseteq Range(unit)
       /\ \A f \in Range(RuntimeFunctionNames) :
             f \in Range(unit) <=> (\E i \in 1..Len(source) : source[i].name = f)

\* C9 witness: the unit of a script that references mod and listGet
C9_Witness ==
    /\ assembled
    /\ Referenced(source) = {"mod", "listGet"}
    /\ Len(source) = 2
    /\ Range(unit) = Range(BaseNames) \cup {"mod", "listGet"}
    /\ "randomInt" \notin Range(unit)

\* C10 as claimed: every identifier a definition of the unit uses is defined
\* in the unit, and no run of a primitive of the unit finds one undefined.
C10_SelfContained ==
    /\ assembled => \A f \in Range(unit) : Uses(f) \subseteq Defined(unit)
    /\ missing = {}
\* C11: when the source cannot be evaluated, scopedEval logs that source at
\* error severity exactly once and rethrows the very error, returning no value;
\* when the evaluation succeeds it logs nothing and returns the value produced.
C11_LogAndRethrow ==
    outcome.kind # "none" =>
        IF facility.throws # None
          THEN /\ errorLog = <<source>>
               /\ outcome.kind = "thrown"
               /\ outcome.error = facility.throws
               /\ outcome.value = Undefined
          ELSE /\ errorLog = << >>
               /\ outcome.kind = "returned"
               /\ outcome.value = facility.value

C11_Witness ==
    /\ outcome.kind = "thrown"
    /\ facility.throws = "SyntaxError"
    /\ Len(source) > 0
    /\ errorLog = <<source>>

\* the number lies in [1, len]
InRange(n, len) ==
    /\ ~n.nan
    /\ n.wraps = 0
    /\ n.low >= 1
    /\ n.low < len \/ (n.low = len /\ n.half = 0)

\* C12: listIndex returns -1 for every number outside [1, length], beyond the
\* 32 bit range and non-integer ones included; it returns length - 1 for
\* "last" on a non-empty list; and every result is -1 or within 0..length-1.
C12_OutsideIsInvalid ==
    listIndexResult # << >> =>
        LET r == listIndexResult[1] IN
        /\ (index.type = "number" /\ ~InRange(index.num, length)) => r = -1
        /\ (index.type = "string" /\ index.text = "last" /\ length > 0)
              => r = length - 1
        /\ r = -1 \/ r \in 0..(length - 1)
\* the index of the call is no position of a list of length len (for
\* listInsert: of the list with one more place); "all" is listDelete's own
InvalidIndex(call, len) ==
    /\ ~(call.op = "listDelete" /\ call.idx.type = "string" /\ call.idx.text = "all")
    /\ listIndex(call.idx, IF call.op = "listInsert" THEN len + 1 ELSE len, 0) = -1

\* C13: a listReplace, listInsert or listDelete call with an invalid index
\* leaves the list contents and the stale flag as they were, and every call
\* that changes the contents, listDelete with 'all' included, leaves
\* _monitorUpToDate false.
C13_MutationMarksStale ==
    [][listCalls' # listCalls =>
         /\ InvalidIndex(lastCall', Len(listValue))
               => UNCHANGED <<listValue, monitorUpToDate>>
         /\ listValue' # listValue => monitorUpToDate' = FALSE]_vars
\* a string of one or more white space characters, such as " "
Blank(v) == v.type = "string" /\ Len(v.str) > 0 /\ isWhiteSpace(v)
Zero(v) == v.type = "number" /\ IsZero(v.num)

\* C14 as stated: compareEqual(" ", 0) is true.
C14_BlankEqualsZero ==
    (compareResult # << >> /\ Blank(v1) /\ Zero(v2)) => compareResult[1] = TRUE

\* C14, amended: compareEqual(" ", 0) is false: a string of white space only
\* is taken as not-a-number instead of 0, so it is compared with "0" as text.
C14_BlankDiffersFromZero ==
    (compareResult # << >> /\ Blank(v1) /\ Zero(v2)) => compareResult[1] = FALSE

C14_Witness ==
    /\ compareResult = <<FALSE>>
    /\ v1 = [type |-> "string", num |-> NaN, str |-> <<" ">>]
    /\ v2 = [type |-> "number", num |-> Num(0, 0, 0), str |-> << >>]
\* C17: callAddonBlock suspends exactly once when a handler is registered for
\* the id and the thread's status is PROMISE_WAIT after the handler ran; it
\* runs the handler exactly once and does not suspend when the status is
\* anything else; with no handler it runs nothing, changes nothing and does not
\* suspend.  A suspended call returns at its resumption without running the
\* handler again.
C17_AddonSuspendsOnce ==
    [][\A t \in Threads :
         /\ \A code \in ProcCodes, e \in AddonEffects :
               CallAddon(t, code, e) =>
                 IF code \in addonBlocks
                   THEN /\ addonCall'[t].invoked = 1
                        /\ IF status'[t] = STATUS_PROMISE_WAIT
                             THEN /\ pc'[t] = "ab_yield"
                                  /\ running' = None
                                  /\ suspensions'[t] = 1
                             ELSE /\ pc'[t] = "script"
                                  /\ running' = t
                                  /\ suspensions'[t] = 0
                   ELSE /\ addonCall'[t].invoked = 0
                        /\ UNCHANGED <<gsThread, running, pc, status, warp, active,
                                       loc, hasResumedFromPromise, addonBlocks>>
         /\ (pc[t] = "ab_yield" /\ pc'[t] # "ab_yield") =>
               /\ pc'[t] = "script"
               /\ running' = t
               /\ addonCall'[t] = addonCall[t]
               /\ status' = status]_vars

C17_Witness ==
    /\ pc["t1"] = "ab_yield"
    /\ status["t1"] = STATUS_PROMISE_WAIT
    /\ addonCall["t1"] = [code |-> "p1", invoked |-> 1]
    /\ suspensions["t1"] = 1
    /\ running = None
\* C15: in any interleaving of execute calls on several threads, a helper or
\* primitive that runs during execute(t) finds globalState.thread to be t; the
\* thread a helper took from it at its entry, and acts on after every
\* resumption, is t, the thread being stepped; and the running generator
\* changes no other thread's status.
C15_HelpersSeeSteppedThread ==
    [][\A t \in Threads :
         /\ running' = t => /\ gsThread' = t
                            /\ thr'[t] \in {None, gsThread'}
         /\ running = t => \A u \in AllThreads \ {t} : status'[u] = status[u]]_vars

C15_Witness ==
    /\ running = "t2"
    /\ pc["t2"] = "cl_exec"
    /\ suspensions["t2"] > 0
    /\ thr["t2"] = "t2"
    /\ gsThread = "t2"
    /\ pc["t1"] = "wt_yield"
    /\ thr["t1"] = "t1"
\* C19: when a thread waits for a promise and other threads are stepped before
\* the promise settles, the settle callback sets the waiting thread's status to
\* RUNNING and changes nothing else: not the status of any other thread, and
\* not globalState.thread, whichever thread that is at the time.
C19_SettleTouchesOnlyWaiter ==
    [][\A t \in Threads :
         (promise[t] = "pending" /\ promise'[t] \in {"fulfilled", "rejected"}) =>
             /\ status'[t] = STATUS_RUNNING
             /\ \A u \in AllThreads \ {t} : status'[u] = status[u]
             /\ gsThread' = gsThread
             /\ running' = running /\ pc' = pc]_vars

C19_Witness ==
    /\ promise["t1"] = "fulfilled"
    /\ pc["t1"] = "wp_yield"
    /\ status["t1"] = STATUS_RUNNING
    /\ gsThread = "t2"
    /\ pc["t2"] = "wp_yield"
    /\ status["t2"] = STATUS_PROMISE_WAIT
\* a step in which the interpreted primitive, not the core, may set a status
PrimitiveStep == \E t \in Threads : running = t /\ pc[t] = "cl_exec" /\ pc'[t] = "cl_check"

\* C20: once a thread's status is DONE the core never changes it again; in
\* particular a promise the thread was waiting for that settles after the
\* thread became DONE does not set it back to RUNNING.
C20_DoneIsFinal ==
    [][\A t \in Threads :
         (status[t] = STATUS_DONE /\ ~PrimitiveStep) => status'[t] = STATUS_DONE]_vars
YieldStates == {STATUS_YIELD, STATUS_YIELD_TICK}

\* C16: executeInCompatibilityLayer terminates when the status leaves the yield
\* states: once the primitive has returned a value that is no promise without
\* setting the status to YIELD or YIELD_TICK, the status is in neither, the
\* helper's next step returns that very value without another run of the
\* primitive, and under fair stepping this return does come.
C16_ReturnsWhenNotYielding ==
    /\ [][/\ \A v \in Vals, e \in PrimitiveEffects :
               (Invoke("t1", "value", v, e) /\ (e = << >> \/ e[1] \notin YieldStates))
                   => status'["t1"] \notin YieldStates
          /\ (pc["t1"] = "cl_check" /\ status["t1"] \notin YieldStates)
                 => /\ pc'["t1"] = "script"
                    /\ result'["t1"] = returnValue["t1"]]_vars
    /\ (pc["t1"] = "cl_check" /\ status["t1"] \notin YieldStates)
          ~> (pc["t1"] = "script")

C16_Witness ==
    /\ pc["t1"] = "cl_check"
    /\ running = "t1"
    /\ suspensions["t1"] > 0
    /\ status["t1"] = STATUS_RUNNING
    /\ returnValue["t1"] = "a"
    /\ warp["t1"] > 0
\* C18: whatever promise-shaped value the thread awaits through waitPromise, a
\* thenable that calls its fulfilment callback inside then() included, once the
\* value has settled the thread's status is eventually RUNNING again: the
\* thread does not stay in PROMISE_WAIT for ever after the callback has run.
C18_SettledRunsAgain ==
    (pc["t1"] = "wp_yield" /\ promise["t1"] \in {"fulfilled", "rejected"})
        ~> (status["t1"] = STATUS_RUNNING)
\* the calls emit owes: each listener registered for the name, in the order
\* of registration, with the parameters given
RECURSIVE ListenerCalls(_, _, _)
ListenerCalls(map, eventName, param) ==
    IF map = << >> THEN << >>
    ELSE (IF Head(map).eventName = eventName
            THEN <<[listener |-> Head(map).listener, args |-> param]>>
            ELSE << >>) \o ListenerCalls(Tail(map), eventName, param)

\* C21: after any sequence of on(eventName, listener) registrations,
\* emit(eventName, ...params) calls the listeners registered for that name
\* with the given parameters and completes without raising an error; for a
\* name with no listener it calls nothing.
C21_EmitCallsListeners ==
    [][lastEmit' # lastEmit =>
         /\ lastEmit'.kind = "returned"
         /\ lastEmit'.invoked
               = ListenerCalls(listerMap, lastEmit'.eventName, lastEmit'.param)]_vars

====
